---------------------------- MODULE Spec2Model ----------------------------
(***************************************************************************)
(* fastcsv2json++ (src/fastcsv2jsonxx.cpp): the conversion run of          *)
(* GenerateJson over the CSV2JSONData context.                             *)
(*                                                                         *)
(* A character is a string of length one, a std::string is a sequence of   *)
(* characters.  One behaviour is one run of main after ParseArguments      *)
(* returned 0: Init is the CData that ParseArguments leaves, the actions   *)
(* are the consecutive pieces of GenerateJson, pc is its position.         *)
(***************************************************************************)
EXTENDS Integers, Sequences, FiniteSets, TLC

\* Bounds of the model.
\* The input stream delivers at most MaxLines lines of at most MaxLen characters.
MaxLines == 3
MaxLen == 2
\* -r and -e are each given at most MaxFilter times.
MaxFilter == 1
\* Capacity of the token buffer.  Line 46 sets it to 4096; the model scales
\* the capacity down so that lines with more fields than slots are drawn.
MAX_TOKEN_COUNT == 2

VARIABLES
  delimiter,          \* data.delimiter (a single character)
  replacewithspace,   \* data.replacewithspace (vector<char>)
  erasechars,         \* data.erasechars (vector<char>)
  infail,             \* data.infilepath is set and is.open() on it fails
  outfail,            \* data.outfilepath is set and os.open() on it fails
  pc,                 \* position in GenerateJson
  line_counter,       \* data.line_counter
  eof,                \* std::getline has failed (end of input or read error)
  input,              \* history: the lines std::getline has delivered so far
  inputline,          \* data.inputline
  tokens,             \* data.tokens, the MAX_TOKEN_COUNT slots
  ntokens,            \* the value TokenizeLine returned for the current line
  maxslot,            \* history: highest slot index Tokenize has stored to (-1: none)
  header,             \* data.s_header / data.header
  validtokencount,    \* data.validtokencount
  outputline,         \* data.outputline
  written,            \* history: the characters handed to *data.out, in order
  rows,               \* history: per tokenized line, the tokens TokenizeLine reported
  objects,            \* history: per object sent to *data.out, its line and text
  exitstatus          \* exit status of the process (-1 while it runs)

vars == <<delimiter, replacewithspace, erasechars, infail, outfail, pc,
          line_counter, eof, input, inputline, tokens, ntokens, maxslot,
          header, validtokencount, outputline, written, rows, objects,
          exitstatus>>

-----------------------------------------------------------------------------
\* Characters and configuration (ParseArguments)

space == " "
comma == ","
dquote == "\""
newline == "\n"
\* dquote_semi[] = "\":\""
dquote_semi == <<"\"", ":", "\"">>

\* -d pipe | comma | semicolumn | column | space | tab
Delimiters == {"|", ",", ";", ":", " ", "\t"}
\* -r: the characters that can be pushed to replacewithspace (no space)
ReplaceChars == {"|", ",", ";", ":", "\t", "\\", "\n", "\r", "'", "\"", "/"}
\* -e: the characters that can be pushed to erasechars
EraseChars == {"|", ",", ";", ":", " ", "\t", "\\", "\n", "\r", "'", "\"", "/"}

\* Sequences over S of length at most n.
SeqsUpTo(S, n) == UNION {[1..k -> S] : k \in 0..n}

\* The characters input lines are drawn from: a data character, the space,
\* and the configured delimiter.
Alphabet(d) == {"a", space, d}
Lines(d) == SeqsUpTo(Alphabet(d), MaxLen)

Last(s) == s[Len(s)]

-----------------------------------------------------------------------------
\* Character Filter (GenerateJson, lines 186-198)

\* std::ranges::replace (line, c, space)
ReplaceChar(line, c) == [i \in 1..Len(line) |-> IF line[i] = c THEN space ELSE line[i]]

\* std::erase (line, c)
EraseChar(line, c) == SelectSeq(line, LAMBDA x : x # c)

RECURSIVE ReplaceAll(_, _)
ReplaceAll(line, cs) ==
  IF cs = <<>> THEN line ELSE ReplaceAll(ReplaceChar(line, Head(cs)), Tail(cs))

RECURSIVE EraseAll(_, _)
EraseAll(line, cs) ==
  IF cs = <<>> THEN line ELSE EraseAll(EraseChar(line, Head(cs)), Tail(cs))

\* Mutant of CharacterFilter: the erase loop runs before the replace loop.
CharacterFilter_EraseFirst(line, rs, es) == ReplaceAll(EraseAll(line, es), rs)

\* The two loops of the driver, replace first, then erase.
CharacterFilter(line, rs, es) == EraseAll(ReplaceAll(line, rs), es)

-----------------------------------------------------------------------------
\* Tokenize (lines 72-96)

\* std::string_view::find (d, start) with 1-based positions; 0 is npos.
Find(line, d, start) ==
  LET hits == {i \in start..Len(line) : line[i] = d}
  IN IF hits = {} THEN 0 ELSE CHOOSE i \in hits : \A j \in hits : i <= j

\* data.tokens[column] = tok.  A store at column >= MAX_TOKEN_COUNT is outside
\* the std::array and leaves the slots as they are.
StoreToken(buf, column, tok) ==
  IF column < MAX_TOKEN_COUNT THEN [buf EXCEPT ![column + 1] = tok] ELSE buf

\* The while loop and the store of the last token (lines 84-92).
RECURSIVE TokenizeLoop(_, _, _, _, _)
TokenizeLoop(line, d, start, column, buf) ==
  LET end == Find(line, d, start) IN
  IF end # 0
    THEN TokenizeLoop(line, d, end + 1, column + 1,
                      StoreToken(buf, column, SubSeq(line, start, end - 1)))
    ELSE [buf |-> StoreToken(buf, column, SubSeq(line, start, Len(line))),
          column |-> column + 1,
          last |-> SubSeq(line, start, Len(line))]

\* Tokenize: the slots after the call, the count it returns, and the two
\* undefined operations it can perform: pop_back () on an empty last token
\* (line 93) and a store past the last slot (lines 86, 92).
Tokenize(line, d, buf) ==
  LET r == TokenizeLoop(line, d, 1, 0, buf)
      popped == IF r.last = <<>> THEN <<>> ELSE SubSeq(r.last, 1, Len(r.last) - 1)
  IN [buf |-> StoreToken(r.buf, r.column - 1, popped),
      column |-> r.column,
      emptypop |-> r.last = <<>>,
      overflow |-> r.column > MAX_TOKEN_COUNT]

\* What an undefined operation can do to the run: the process aborts, or the
\* run goes on (an empty token stays empty, a stray store misses the slots).
UBOutcomes == {"abort", "continue"}

-----------------------------------------------------------------------------
\* JSON record (GenerateJson, lines 207-220)

\* Mutant of Separator: the comma without the newline.
Separator_NoNewline == <<comma>>

\* *data.out << comma << '\n' (line 202)
Separator == <<comma, newline>>

RECURSIVE BuildLoop(_, _, _, _, _)
BuildLoop(hdr, buf, n, counter, acc) ==
  IF counter < n
    THEN BuildLoop(hdr, buf, n, counter + 1,
                   acc \o <<dquote>> \o hdr[counter + 1] \o dquote_semi
                       \o buf[counter + 1] \o <<dquote>>
                       \o (IF n - counter > 1 THEN <<comma>> ELSE <<>>))
    ELSE acc

\* Mutant of BuildObject: every value is taken from slot 0.
BuildObject_FirstSlot(hdr, buf, n) ==
  BuildLoop(hdr, [i \in 1..Len(buf) |-> buf[1]], n, 0, <<"{">>) \o <<"}">>

\* data.outputline after lines 208-220.
BuildObject(hdr, buf, n) == BuildLoop(hdr, buf, n, 0, <<"{">>) \o <<"}">>

-----------------------------------------------------------------------------
\* The run

Init ==
  /\ delimiter \in Delimiters
  /\ replacewithspace \in SeqsUpTo(ReplaceChars \cap Alphabet(delimiter), MaxFilter)
  /\ erasechars \in SeqsUpTo(EraseChars \cap Alphabet(delimiter), MaxFilter)
  /\ infail \in BOOLEAN
  /\ outfail \in BOOLEAN
  /\ pc = "start"
  /\ line_counter = 0
  /\ eof = FALSE
  /\ input = <<>>
  /\ inputline = <<>>
  /\ tokens = [i \in 1..MAX_TOKEN_COUNT |-> <<>>]
  /\ ntokens = 0
  /\ maxslot = -1
  /\ header = <<>>
  /\ validtokencount = 0
  /\ outputline = <<>>
  /\ written = <<>>
  /\ rows = <<>>
  /\ objects = <<>>
  /\ exitstatus = -1

\* Lines 156-181: the streams are opened (a failed open is not looked at)
\* and '[' is sent to the output stream.
ArrayOpen ==
  /\ pc = "start"
  /\ written' = written \o <<"[">>
  /\ pc' = "read"
  /\ UNCHANGED <<delimiter, replacewithspace, erasechars, infail, outfail,
                 line_counter, eof, input, inputline, tokens, ntokens, maxslot,
                 header, validtokencount, outputline, rows, objects, exitstatus>>

\* GetLine (lines 134-142) as the condition of the while loop (line 184):
\* the counter is incremented, and the loop goes on iff std::getline
\* succeeds and the line it delivered has a size other than 0.
GetLine ==
  /\ pc = "read"
  /\ line_counter' = line_counter + 1
  /\ \E got \in (IF infail \/ Len(input) >= MaxLines THEN {FALSE} ELSE BOOLEAN) :
       IF got
         THEN \E line \in Lines(delimiter) :
                /\ input' = Append(input, line)
                /\ inputline' = line
                /\ eof' = FALSE
                /\ pc' = IF Len(line) # 0 THEN "filter" ELSE "close"
         ELSE /\ eof' = TRUE
              /\ pc' = "close"
              /\ UNCHANGED <<input, inputline>>
  /\ UNCHANGED <<delimiter, replacewithspace, erasechars, infail, outfail,
                 tokens, ntokens, maxslot, header, validtokencount, outputline,
                 written, rows, objects, exitstatus>>

\* Lines 186-202: the character filter, then the separator for every line
\* after the second.
FilterLine ==
  /\ pc = "filter"
  /\ inputline' = CharacterFilter(inputline, replacewithspace, erasechars)
  /\ written' = IF line_counter > 2 THEN written \o Separator ELSE written
  /\ pc' = "tokenize"
  /\ UNCHANGED <<delimiter, replacewithspace, erasechars, infail, outfail,
                 line_counter, eof, input, tokens, ntokens, maxslot, header,
                 validtokencount, outputline, rows, objects, exitstatus>>

\* TokenizeLine (lines 100-130), called at line 204.
TokenizeLine ==
  /\ pc = "tokenize"
  /\ LET line == inputline \o <<space>>
         t == Tokenize(line, delimiter, tokens)
         n == IF t.column = 0 \/ t.column > MAX_TOKEN_COUNT THEN 0 ELSE t.column
     IN /\ inputline' = line
        /\ maxslot' = IF t.column - 1 > maxslot THEN t.column - 1 ELSE maxslot
        /\ \E o \in (IF t.emptypop \/ t.overflow THEN UBOutcomes ELSE {"continue"}) :
             IF o = "abort"
               THEN /\ pc' = "crashed"
                    /\ exitstatus' = 134
                    /\ UNCHANGED <<tokens, ntokens, header, validtokencount, rows>>
               ELSE /\ tokens' = t.buf
                    /\ ntokens' = n
                    /\ header' = IF n # 0 /\ line_counter = 1
                                   THEN header \o SubSeq(t.buf, 1, n) ELSE header
                    /\ validtokencount' = IF n # 0 /\ line_counter = 1
                                            THEN n ELSE validtokencount
                    /\ rows' = Append(rows, SubSeq(t.buf, 1, n))
                    /\ pc' = "emit"
                    /\ UNCHANGED exitstatus
  /\ UNCHANGED <<delimiter, replacewithspace, erasechars, infail, outfail,
                 line_counter, eof, input, outputline, written, objects>>

\* Lines 205-225: the record is built when the count matches and sent to the
\* output stream unless the line is the header.
EmitRecord ==
  /\ pc = "emit"
  /\ IF validtokencount = ntokens
       THEN LET obj == BuildObject(header, tokens, ntokens) IN
            /\ outputline' = obj
            /\ written' = IF line_counter > 1 THEN written \o obj ELSE written
            /\ objects' = IF line_counter > 1
                            THEN Append(objects, [line |-> line_counter, text |-> obj])
                            ELSE objects
       ELSE UNCHANGED <<outputline, written, objects>>
  /\ pc' = "read"
  /\ UNCHANGED <<delimiter, replacewithspace, erasechars, infail, outfail,
                 line_counter, eof, input, inputline, tokens, ntokens, maxslot,
                 header, validtokencount, rows, exitstatus>>

\* Lines 228-238: ']' is sent, the stream flushed, the files closed, and
\* GenerateJson returns 0, which main returns.
ArrayClose ==
  /\ pc = "close"
  /\ written' = written \o <<"]">>
  /\ exitstatus' = 0
  /\ pc' = "done"
  /\ UNCHANGED <<delimiter, replacewithspace, erasechars, infail, outfail,
                 line_counter, eof, input, inputline, tokens, ntokens, maxslot,
                 header, validtokencount, outputline, rows, objects>>

Next == ArrayOpen \/ GetLine \/ FilterLine \/ TokenizeLine \/ EmitRecord \/ ArrayClose

Spec == Init /\ [][Next]_vars

-----------------------------------------------------------------------------
\* Reference notions the properties are stated with

Range(s) == {s[i] : i \in 1..Len(s)}

\* Number of occurrences of character c in s.
Count(s, c) == Cardinality({i \in 1..Len(s) : s[i] = c})

\* The substrings of line between the occurrences of d.
RECURSIVE SplitRef(_, _)
SplitRef(line, d) ==
  IF d \notin Range(line) THEN <<line>>
  ELSE LET i == CHOOSE k \in 1..Len(line) :
                  line[k] = d /\ \A j \in 1..(k - 1) : line[j] # d
       IN <<SubSeq(line, 1, i - 1)>> \o SplitRef(SubSeq(line, i + 1, Len(line)), d)

\* A line with every character of R turned into a space, and then every
\* character of E removed.
FilterRef(line, R, E) ==
  SelectSeq([i \in 1..Len(line) |-> IF line[i] \in R THEN space ELSE line[i]],
            LAMBDA x : x \notin E)

\* The i-th line delivered, as the tokenizer should see it.
Filtered(i) == FilterRef(input[i], Range(replacewithspace), Range(erasechars))

\* "k":"v"
PairRef(k, v) == <<dquote>> \o k \o <<dquote, ":", dquote>> \o v \o <<dquote>>

RECURSIVE JoinRef(_, _)
JoinRef(parts, sep) ==
  IF parts = <<>> THEN <<>>
  ELSE IF Len(parts) = 1 THEN parts[1]
  ELSE parts[1] \o sep \o JoinRef(Tail(parts), sep)

\* {"k1":"v1",...,"kN":"vN"}
RenderRef(keys, vals) ==
  <<"{">> \o JoinRef([i \in 1..Len(keys) |-> PairRef(keys[i], vals[i])], <<comma>>)
          \o <<"}">>

\* The run has ended, by return or by abort.
Ended == pc \in {"done", "crashed"}

-----------------------------------------------------------------------------
\* C1: every object sent to the output pairs header field i with the row's
\* field i, in order: its text is the rendering of the first line's tokens
\* as keys and of the tokens of its own line as values, unchanged.
C1_HeaderPairing ==
  \A k \in 1..Len(objects) :
    LET o == objects[k] IN
    /\ o.line \in 2..Len(rows)
    /\ Len(rows[o.line]) = Len(rows[1])
    /\ header = rows[1]
    /\ o.text = RenderRef(rows[1], rows[o.line])

\* Two objects have been written, one of them with two different values.
C1_Witness ==
  /\ Len(objects) >= 2
  /\ \E k \in 1..Len(objects) :
       /\ Len(rows[objects[k].line]) = 2
       /\ rows[objects[k].line][1] # rows[objects[k].line][2]
       /\ rows[1][1] # rows[1][2]

\* The run has returned after a header and exactly two rows were tokenized,
\* both rows with the header's field count.
TwoValidRows ==
  /\ pc = "done"
  /\ Len(rows) = 3
  /\ Len(rows[2]) = Len(rows[1])
  /\ Len(rows[3]) = Len(rows[1])

\* C2 as stated: after a header and two rows with the header's field count
\* the output is '[' object1 ',' object2 ']' with nothing but a single comma
\* between the objects.
C2_SingleCommaOnly ==
  TwoValidRows =>
    written = <<"[">> \o RenderRef(rows[1], rows[2]) \o <<comma>>
                      \o RenderRef(rows[1], rows[3]) \o <<"]">>

\* C2 amended: after a header and two rows with the header's field count the
\* output is '[' object1 ',' newline object2 ']': one comma and one newline
\* between the objects, no trailing comma, one bracket at each end.
C2_CommaNewline ==
  TwoValidRows =>
    written = <<"[">> \o RenderRef(rows[1], rows[2]) \o <<comma, newline>>
                      \o RenderRef(rows[1], rows[3]) \o <<"]">>

\* A run over exactly three lines has returned with two objects written.
C2_Witness ==
  /\ TwoValidRows
  /\ eof
  /\ Len(input) = 3
  /\ Len(objects) = 2
  /\ Len(rows[1]) = 2

\* C3: the finished output is a well-formed array of exactly the objects
\* written: apart from the newlines it is '[' followed by the objects
\* joined by single commas followed by ']', so no comma follows '[',
\* precedes ']' or follows another comma.
C3_WellFormedArray ==
  pc = "done" =>
    SelectSeq(written, LAMBDA x : x # newline)
      = <<"[">> \o JoinRef([k \in 1..Len(objects) |-> objects[k].text], <<comma>>)
                \o <<"]">>

\* C4: a line yields an object iff it is a data row whose field count is
\* the header's: once the header and a row have been delivered, a run that
\* has ended has raised no error, has processed every line of the input,
\* and has written as many objects as there are data rows with the header's
\* field count.
C4_DropOnMismatch ==
  (Ended /\ Len(input) >= 2) =>
    /\ eof
    /\ exitstatus = 0
    /\ Len(objects) =
         Cardinality({i \in 2..Len(input) :
                        Len(SplitRef(Filtered(i), delimiter))
                          = Len(SplitRef(Filtered(1), delimiter))})

\* The number of fields of the i-th line delivered is within the capacity.
Fits(i) == Count(Filtered(i), delimiter) + 1 <= MAX_TOKEN_COUNT

\* C5: for every delimiter, a line with k occurrences of the delimiter
\* (k + 1 within the capacity) is reported as exactly the k + 1 substrings
\* between the occurrences, and tokenizing such a line does not end the run.
C5_TokenizeSplits ==
  /\ \A i \in 1..Len(rows) :
       Fits(i) =>
         /\ Len(rows[i]) = Count(Filtered(i), delimiter) + 1
         /\ rows[i] = SplitRef(Filtered(i), delimiter)
  /\ (pc = "crashed" /\ input # <<>>) => ~Fits(Len(input))

\* C6: a run whose input path or output path cannot be opened does not end
\* with status 0.
C6_FatalOpenFailure ==
  (Ended /\ (infail \/ outfail)) => exitstatus # 0

\* C7: '[' is written once and before any line is read, ']' once, last, and
\* only after the input is exhausted, and a run that has ended has written
\* the ']'.
C7_WriteOrder ==
  /\ pc # "start" => (written # <<>> /\ written[1] = "[")
  /\ pc = "start" => written = <<>>
  /\ Count(written, "[") <= 1
  /\ Count(written, "]") <= 1
  /\ Count(written, "]") = 1 => (Last(written) = "]" /\ eof)
  /\ Ended => Count(written, "]") = 1

\* C8: the loop is left only when std::getline has failed, every line
\* delivered before that has been tokenized, an empty one as one empty field.
C8_LoopEndsAtEof ==
  pc \in {"close", "done"} =>
    /\ eof
    /\ Len(rows) = Len(input)
    /\ \A i \in 1..Len(rows) : input[i] = <<>> => rows[i] = << <<>> >>

\* C9: no store goes to a slot index at or past the capacity, and the count
\* reported never exceeds the capacity.
C9_SlotsInRange ==
  /\ maxslot < MAX_TOKEN_COUNT
  /\ ntokens <= MAX_TOKEN_COUNT

\* C10: the line handed to the tokenizer is the line read with every
\* replace-set character turned into a space and then every erase-set
\* character removed, and filtering it again leaves it as it is.
C10_FilterOrder ==
  pc = "tokenize" =>
    /\ inputline = FilterRef(Last(input), Range(replacewithspace), Range(erasechars))
    /\ CharacterFilter(inputline, replacewithspace, erasechars) = inputline

\* A line with a replace-set character has been filtered with both sets
\* configured, the space it became erased.
C10_Witness ==
  /\ pc = "tokenize"
  /\ replacewithspace # <<>>
  /\ erasechars = <<space>>
  /\ Range(replacewithspace) \cap Range(Last(input)) # {}
  /\ Len(inputline) < Len(Last(input))
  /\ inputline # <<>>

=============================================================================
